---------------------------- MODULE Spec2Model ----------------------------
(***************************************************************************)
(* Model of the medicare-policy-chatbot core:                              *)
(*   - embedding.py : chunk_doc (three tiered extraction strategies) and   *)
(*                    the ingestion loop (chunk, embed, upsert)            *)
(*   - service.py / hybrid_search.py / plan_service.py : visual_grounding  *)
(*   - service.py   : annotate_result                                      *)
(* Strings are modelled by their lengths, uuid5 by the name it hashes.     *)
(***************************************************************************)
EXTENDS Integers, Sequences, FiniteSets, TLC

\* ------------------------------------------------------------------------
\* Bounds of the model
\* ------------------------------------------------------------------------
MaxChunks == 2
MaxTables == 2
MaxDocs == 2
MaxRuns == 2
MaxList == 3
MaxHits == 3
MaxPages == 2
MaxBoxes == 2

\* ------------------------------------------------------------------------
\* Program constants
\* ------------------------------------------------------------------------
MinTableLen == 10
MinMarkdownLen == 50
KMax == 10
SearchLimit == 5
RRF_K == 60
PAD == 6
LINE_WIDTH == 4
NColors == 5

VARIABLES
    JSONS,        \* embedding.py JSONS: the documents of the run, in order
    run,          \* number of the current invocation
    pc,           \* position of the script
    di,           \* index into JSONS of json_path
    i,            \* enumerate index of the running strategy
    chunk_count,  \* chunk_doc's chunk_count
    chunks,       \* what chunk_doc has yielded for the current document
    used2,        \* the table loop of strategy 2 was entered for this document
    used3,        \* the markdown export of strategy 3 was entered
    store,        \* the collection: sequence of points
    idsByRun,     \* history: ids gathered per run and document
    upserted,     \* history: documents upserted at least once
    countAtDone   \* history: points in the store when a run first completed

ingestVars == <<JSONS, run, pc, di, i, chunk_count, chunks, used2,
                used3, store, idsByRun, upserted, countAtDone>>

VARIABLES
    manifest,     \* plans.json: the plan entries, in file order
    plans,        \* PlanService._plans
    hash_to_plan, \* PlanService._hash_to_plan
    points,       \* the collection queried by the service: payload by point
    dense,        \* the dense prefetch's ranking of the query text
    sparse,       \* the sparse prefetch's ranking of the query text
    resp          \* the response to the last request

searchVars == <<manifest, plans, hash_to_plan, points, dense, sparse, resp>>

VARIABLES
    stored,       \* the document under DOC_STORE_DIR, None when it cannot be loaded
    areq,         \* the annotate request being answered
    aresp         \* the response to it

annotateVars == <<stored, areq, aresp>>

vars == <<ingestVars, searchVars, annotateVars>>

\* ------------------------------------------------------------------------
\* Strings, by length: len characters of which pad are leading or trailing
\* white space.
\* ------------------------------------------------------------------------
Text(len, pad) == [len |-> len, pad |-> pad]

StripLen(t) == t.len - t.pad

Truthy(t) == t.len > 0

SeqUpTo(S, n) == UNION {[1..k -> S] : k \in 0..n}

\* ------------------------------------------------------------------------
\* Documents.  chunks is what chunker.chunk(doc) does item by item:
\*   "ok"    a chunk with text and meta, contextualized and yielded
\*   "plain" a chunk without text/meta attributes (else branch)
\*   "err"   a chunk whose contextualize / export_json_dict raises
\*   "raise" the chunker's iterator itself raises (nothing follows it)
\* ------------------------------------------------------------------------
ChunkOutcomes == {"ok", "plain", "err", "raise"}

ChunkScripts ==
    {s \in SeqUpTo(ChunkOutcomes, MaxChunks) :
        \A j \in 1..Len(s) : s[j] = "raise" => j = Len(s)}

TableSet ==
    { [render |-> "md_doc",    text |-> Text(MinTableLen + 1, 0), meta |-> "ok",    prov |-> TRUE],
      [render |-> "md_legacy", text |-> Text(MinTableLen + 2, 2), meta |-> "ok",    prov |-> FALSE],
      [render |-> "text",      text |-> Text(0, 0),               meta |-> "ok",    prov |-> FALSE],
      [render |-> "md_raise",  text |-> Text(MinTableLen + 1, 0), meta |-> "ok",    prov |-> TRUE],
      [render |-> "data",      text |-> Text(MinTableLen + 1, 0), meta |-> "raise", prov |-> TRUE] }

MdSet ==
    { [raises |-> TRUE,  text |-> Text(0, 0)],
      [raises |-> FALSE, text |-> Text(MinMarkdownLen + 3, 3)],
      [raises |-> FALSE, text |-> Text(MinMarkdownLen + 1, 0)] }

Doc(o, h, cs, ts, md) ==
    [has_origin |-> o, binary_hash |-> h, chunks |-> cs, tables |-> ts, md |-> md]

DocSet ==
    {Doc(o, 1, cs, ts, md) :
        o \in BOOLEAN, cs \in ChunkScripts, ts \in SeqUpTo(TableSet, MaxTables),
        md \in MdSet}

SampleDocs ==
    LET long  == [render |-> "md_doc",    text |-> Text(MinTableLen + 1, 0), meta |-> "ok", prov |-> TRUE]
        short == [render |-> "md_legacy", text |-> Text(MinTableLen + 2, 2), meta |-> "ok", prov |-> FALSE]
        mdLong  == [raises |-> FALSE, text |-> Text(MinMarkdownLen + 1, 0)]
        mdShort == [raises |-> FALSE, text |-> Text(MinMarkdownLen + 3, 3)]
    IN  { Doc(TRUE,  1, <<"ok", "plain">>, <<>>,            mdLong),
          Doc(TRUE,  2, <<"ok">>,          <<long>>,        mdLong),
          Doc(FALSE, 1, <<"ok">>,          <<>>,            mdLong),
          Doc(TRUE,  2, <<>>,              <<long, short>>, mdLong),
          Doc(TRUE,  1, <<>>,              <<>>,            mdLong),
          Doc(TRUE,  2, <<>>,              <<>>,            mdShort),
          Doc(TRUE,  1, <<"err", "ok">>,   <<long>>,        mdLong),
          Doc(TRUE,  2, <<"ok", "raise">>, <<>>,            mdShort) }

\* ------------------------------------------------------------------------
\* Point identifiers.  uuid.uuid5(NAMESPACE_DNS, name) is a fixed hash of
\* name; the id is modelled by the parts the name is formatted from:
\*   f"{binary_hash}-{i}", f"{binary_hash}-table-{table_idx}",
\*   f"{binary_hash}-markdown"
\* UidPerRun is the variant of a random (uuid4-like) id, fresh in every run.
\* ------------------------------------------------------------------------
UidPerRun(binary_hash, marker, n) ==
    [hash |-> binary_hash, marker |-> marker, n |-> n + 10 * run]

Uid(binary_hash, marker, n) ==
    [hash |-> binary_hash, marker |-> marker, n |-> n]

\* chunk_count += 1 (before the chunk is contextualized and yielded).
\* CountKept is the variant that would count a chunk only once it is yielded.
CountKept(c) == c

CountAfterChunk(c) == c + 1

\* The rendering chosen by the hasattr cascade of strategy 2.
TableRenderRaises(table) == table.render = "md_raise"

TableText(table) == table.text

\* table_text and len(table_text.strip()) > 10
TableMeaningful(t) == Truthy(t) /\ StripLen(t) > MinTableLen

\* md_content and len(md_content.strip()) > 50
MarkdownSubstantial(t) == Truthy(t) /\ StripLen(t) > MinMarkdownLen

Chunk(id, text, ctype, idx, meta) ==
    [id |-> id, text |-> text, content_type |-> ctype, index |-> idx, meta |-> meta]

\* The contextualized text of structural chunk i of a document.
ChunkText(doc, n) == Text(MinMarkdownLen + n, 0)

\* ------------------------------------------------------------------------
\* The collection: a sequence of points, at most one per id.
\* qdrant.upsert overwrites the point that has the id, or adds the point.
\* ------------------------------------------------------------------------
Point(c) == [id |-> c.id, vector |-> c.text, payload |-> c.meta]

UpsertOne(st, p) ==
    IF \E k \in 1..Len(st) : st[k].id = p.id
    THEN [k \in 1..Len(st) |-> IF st[k].id = p.id THEN p ELSE st[k]]
    ELSE Append(st, p)

RECURSIVE UpsertAll(_, _)
UpsertAll(st, pts) ==
    IF pts = <<>> THEN st
    ELSE UpsertAll(UpsertOne(st, Head(pts)), Tail(pts))

Ids(cs) == {cs[k].id : k \in 1..Len(cs)}

\* ------------------------------------------------------------------------
\* Ingestion: the main loop of embedding.py and chunk_doc, step by step.
\* ------------------------------------------------------------------------
CurDoc == JSONS[di]

IngestInit ==
    /\ JSONS \in {<<d>> : d \in DocSet}
                 \cup UNION {[1..n -> SampleDocs] : n \in 1..MaxDocs}
    /\ run = 1
    /\ pc = "loop"
    /\ di = 1
    /\ i = 0
    /\ chunk_count = 0
    /\ chunks = <<>>
    /\ used2 = FALSE
    /\ used3 = FALSE
    /\ store = <<>>
    /\ idsByRun = {}
    /\ upserted = {}
    /\ countAtDone = -1

\* for json_path in JSONS: chunk_doc(json_path) up to the origin check
StartDoc ==
    /\ pc = "loop"
    /\ di <= Len(JSONS)
    /\ i' = 0
    /\ chunk_count' = 0
    /\ chunks' = <<>>
    /\ used2' = FALSE
    /\ used3' = FALSE
    /\ pc' = IF CurDoc.has_origin THEN "s1" ELSE "crashed"
    /\ UNCHANGED <<JSONS, run, di, store, idsByRun, upserted, countAtDone>>
    /\ UNCHANGED <<searchVars, annotateVars>>

\* After strategy 1: the guard of strategy 2.
AfterStrategy1(count) ==
    IF count = 0 /\ Len(CurDoc.tables) > 0 THEN "s2" ELSE "s3"

\* One iteration of the loop over chunker.chunk(doc), inside its try.
Strategy1Step ==
    /\ pc = "s1"
    /\ LET cs == CurDoc.chunks
           leave(count) ==
               /\ chunk_count' = count
               /\ pc' = AfterStrategy1(count)
               /\ used2' = (AfterStrategy1(count) = "s2")
               /\ i' = 0
               /\ UNCHANGED chunks
       IN  IF i = Len(cs) \/ cs[i + 1] = "raise"
           THEN leave(chunk_count)
           ELSE IF cs[i + 1] = "err"
           THEN leave(CountAfterChunk(chunk_count))
           ELSE /\ chunk_count' = CountAfterChunk(chunk_count)
                /\ chunks' = Append(chunks,
                       Chunk(Uid(CurDoc.binary_hash, "ord", i), ChunkText(CurDoc, i),
                             "chunk", i,
                             IF cs[i + 1] = "ok" THEN "export_json_dict" ELSE "text_only"))
                /\ i' = i + 1
                /\ UNCHANGED <<pc, used2>>
    /\ UNCHANGED <<JSONS, run, di, used3, store, idsByRun, upserted, countAtDone>>
    /\ UNCHANGED <<searchVars, annotateVars>>

\* One iteration of the loop over doc.tables; its try is inside the loop.
Strategy2Step ==
    /\ pc = "s2"
    /\ IF i = Len(CurDoc.tables)
       THEN /\ pc' = "s3"
            /\ i' = 0
            /\ UNCHANGED <<chunk_count, chunks>>
       ELSE LET table == CurDoc.tables[i + 1] IN
            /\ i' = i + 1
            /\ pc' = pc
            /\ IF TableRenderRaises(table) \/ ~TableMeaningful(TableText(table))
               THEN UNCHANGED <<chunk_count, chunks>>
               ELSE /\ chunk_count' = CountAfterChunk(chunk_count)
                    /\ IF table.prov /\ table.meta = "raise"
                       THEN UNCHANGED chunks
                       ELSE chunks' = Append(chunks,
                               Chunk(Uid(CurDoc.binary_hash, "table", i),
                                     TableText(table), "table", i, table.render))
    /\ UNCHANGED <<JSONS, run, di, used2, used3, store, idsByRun, upserted, countAtDone>>
    /\ UNCHANGED <<searchVars, annotateVars>>

\* if chunk_count == 0: the markdown export, and the end of chunk_doc.
Strategy3 ==
    /\ pc = "s3"
    /\ pc' = "gathered"
    /\ used3' = (chunk_count = 0)
    /\ IF chunk_count = 0 /\ ~CurDoc.md.raises /\ MarkdownSubstantial(CurDoc.md.text)
       THEN /\ chunk_count' = CountAfterChunk(chunk_count)
            /\ chunks' = Append(chunks,
                   Chunk(Uid(CurDoc.binary_hash, "markdown", 0), CurDoc.md.text,
                         "markdown_export", 0, "markdown_export"))
       ELSE UNCHANGED <<chunk_count, chunks>>
    /\ UNCHANGED <<JSONS, run, di, i, used2, store, idsByRun, upserted, countAtDone>>
    /\ UNCHANGED <<searchVars, annotateVars>>

\* chunks = list(chunk_doc(json_path)); if not chunks: continue
Gather ==
    /\ pc = "gathered"
    /\ idsByRun' = idsByRun \cup {<<run, di, Ids(chunks)>>}
    /\ IF chunks = <<>>
       THEN /\ pc' = "loop"
            /\ di' = di + 1
       ELSE /\ pc' = "embed"
            /\ di' = di
    /\ UNCHANGED <<JSONS, run, i, chunk_count, chunks, used2, used3, store, upserted,
                   countAtDone>>
    /\ UNCHANGED <<searchVars, annotateVars>>

\* vectors = embed_texts(list(texts)); the provider may fail
EmbedTexts ==
    /\ pc = "embed"
    /\ \E ok \in BOOLEAN : pc' = IF ok THEN "upsert" ELSE "crashed"
    /\ UNCHANGED <<JSONS, run, di, i, chunk_count, chunks, used2, used3, store,
                   idsByRun, upserted, countAtDone>>
    /\ UNCHANGED <<searchVars, annotateVars>>

\* upsert_points(COLLECTION_NAME, ids, vectors, payloads); the store may fail
UpsertPoints ==
    /\ pc = "upsert"
    /\ \E ok \in BOOLEAN :
        IF ok
        THEN /\ store' = UpsertAll(store, [k \in 1..Len(chunks) |-> Point(chunks[k])])
             /\ upserted' = upserted \cup {di}
             /\ di' = di + 1
             /\ pc' = "loop"
        ELSE /\ pc' = "crashed"
             /\ UNCHANGED <<store, upserted, di>>
    /\ UNCHANGED <<JSONS, run, i, chunk_count, chunks, used2, used3, idsByRun,
                   countAtDone>>
    /\ UNCHANGED <<searchVars, annotateVars>>

\* The loop is over: print("All done!")
AllDone ==
    /\ pc = "loop"
    /\ di > Len(JSONS)
    /\ pc' = "done"
    /\ countAtDone' = IF countAtDone < 0 THEN Len(store) ELSE countAtDone
    /\ UNCHANGED <<JSONS, run, di, i, chunk_count, chunks, used2, used3, store,
                   idsByRun, upserted>>
    /\ UNCHANGED <<searchVars, annotateVars>>

\* The script is run again on the same, unchanged extracted_docs.
RunAgain ==
    /\ pc \in {"done", "crashed"}
    /\ run < MaxRuns
    /\ run' = run + 1
    /\ pc' = "loop"
    /\ di' = 1
    /\ i' = 0
    /\ chunk_count' = 0
    /\ chunks' = <<>>
    /\ used2' = FALSE
    /\ used3' = FALSE
    /\ UNCHANGED <<JSONS, store, idsByRun, upserted, countAtDone>>
    /\ UNCHANGED <<searchVars, annotateVars>>

IngestNext ==
    \/ StartDoc
    \/ Strategy1Step
    \/ Strategy2Step
    \/ Strategy3
    \/ Gather
    \/ EmbedTexts
    \/ UpsertPoints
    \/ AllDone
    \/ RunAgain

\* ------------------------------------------------------------------------
\* Values of the query side.
\* A fingerprint is a JSON number or a JSON string: Fp("int", n) is the
\* number n, Fp("str", n) the string of n's decimal digits.  str() turns
\* both into the string.  Optional values are <<>> (None) or <<v>>.
\* ------------------------------------------------------------------------
Fp(t, v) == [t |-> t, v |-> v]

StrIdentity(x) == x

Str(x) == Fp("str", x.v)

None == <<>>

Some(v) == <<v>>

\* Python truth value of an Optional[str]
TruthyOpt(o) == o # None /\ o[1] # ""

Min(a, b) == IF a < b THEN a ELSE b

\* The first n of s; TakeAll is the variant without a limit.
TakeAll(s, n) == s

Take(s, n) == SubSeq(s, 1, Min(n, Len(s)))

Range(s) == {s[j] : j \in 1..Len(s)}

InjSeqs(S, n) ==
    {s \in SeqUpTo(S, n) : \A a \in 1..Len(s) : \A b \in 1..Len(s) : s[a] = s[b] => a = b}

\* A provenance record of a doc item, and a doc item, as stored in a payload.
Prov(page_no, bbox) == [kind |-> "ok", page_no |-> page_no, bbox |-> bbox]

BadProv == [kind |-> "bad", page_no |-> 0, bbox |-> 0]

Item(prov) == [kind |-> "dict", prov |-> prov]

\* shape: "none" payload is None, "no_origin" origin is not a dict,
\*        "no_hash" origin.binary_hash is None, "ok" otherwise
Payload(shape, bh, text, items) ==
    [shape |-> shape, binary_hash |-> bh, text |-> text, doc_items |-> items]

PayloadSet ==
    { Payload("none",      Fp("str", 0), 0, <<>>),
      Payload("no_origin", Fp("str", 0), 1, <<Item(<<Prov(1, 1)>>)>>),
      Payload("no_hash",   Fp("str", 0), 2, <<>>),
      Payload("ok", Fp("str", 1), 3, <<Item(<<Prov(1, 1)>>)>>),
      Payload("ok", Fp("int", 1), 4,
              <<Item(<<Prov(2, 1), BadProv, Prov(2, 3)>>), Item(<<Prov(1, 2)>>)>>),
      Payload("ok", Fp("str", 3), 5, <<[kind |-> "other", prov |-> <<>>], Item(<<BadProv>>)>>) }

\* The four points A, B, C, D of the fusion scenarios.
FusionPoints ==
    << Payload("ok", Fp("str", 1), 3, <<Item(<<Prov(1, 1)>>)>>),
       Payload("ok", Fp("str", 2), 4, <<Item(<<Prov(2, 1)>>)>>),
       Payload("ok", Fp("str", 1), 5, <<>>),
       Payload("ok", Fp("str", 3), 6, <<Item(<<Prov(3, 3)>>)>>) >>

\* A collection with more matching points than any limit allows.
ManyPoints == [j \in 1..(KMax + 1) |-> Payload("ok", Fp("str", 1), 10 + j, <<>>)]

PlanDoc(bh, filename) == [binary_hash |-> bh, filename |-> filename]

Plan(id, docs) == [plan_id |-> id, plan_name |-> <<"name", id>>, documents |-> docs]

FusionManifest ==
    << Plan("A", <<PlanDoc(Fp("str", 1), "f1"), PlanDoc(Fp("str", 2), "f2")>>),
       Plan("B", <<PlanDoc(Fp("str", 3), "f3")>>) >>

ManifestSet ==
    { <<>>,
      FusionManifest,
      << Plan("A", <<PlanDoc(Fp("str", 1), "f1")>>),
         Plan("B", <<PlanDoc(Fp("str", 1), "f1"), PlanDoc(Fp("str", 2), "f2")>>) >>,
      << Plan("A", <<PlanDoc(Fp("int", 1), "f1")>>),
         Plan("B", <<>>) >> }

PlanIds == {None, Some(""), Some("A"), Some("B"), Some("Z")}

Limits == {0, 1, 2, KMax, KMax + 1}

\* ------------------------------------------------------------------------
\* PlanService
\* ------------------------------------------------------------------------
\* __init__: self._plans[plan_id] = entry, the last entry of an id wins
Plans(raw) ==
    [id \in {raw[j].plan_id : j \in 1..Len(raw)} |->
        LET last == CHOOSE j \in 1..Len(raw) :
                        /\ raw[j].plan_id = id
                        /\ \A m \in 1..Len(raw) : raw[m].plan_id = id => m <= j
        IN  raw[last]]

\* __init__: self._hash_to_plan[str(binary_hash)] = plan_id, the last plan
\* that lists a hash wins
HashToPlan(raw) ==
    LET hashesOf(j) == {Str(raw[j].documents[d].binary_hash) :
                           d \in 1..Len(raw[j].documents)}
        known == UNION {hashesOf(j) : j \in 1..Len(raw)}
    IN  [h \in known |->
            LET last == CHOOSE j \in 1..Len(raw) :
                            /\ h \in hashesOf(j)
                            /\ \A m \in 1..Len(raw) : h \in hashesOf(m) => m <= j
            IN  raw[last].plan_id]

\* plan_service = PlanService(PLAN_JSON_PATH)
PlanServiceInit ==
    /\ plans = Plans(manifest)
    /\ hash_to_plan = HashToPlan(manifest)

\* get_plan: self._plans.get(plan_id)
get_plan(plan_id) == IF plan_id \in DOMAIN plans THEN Some(plans[plan_id]) ELSE None

\* get_hashes: [str(doc["binary_hash"]) for doc in plan["documents"]]
get_hashes(plan_id) ==
    IF get_plan(plan_id) = None THEN <<>>
    ELSE LET docs == get_plan(plan_id)[1].documents
         IN  [d \in 1..Len(docs) |-> Str(docs[d].binary_hash)]

\* plan_for_hash: self._hash_to_plan.get(binary_hash)
plan_for_hash(bh) == IF bh \in DOMAIN hash_to_plan THEN Some(hash_to_plan[bh]) ELSE None

\* ------------------------------------------------------------------------
\* The vector store's query_points with an RRF fusion query over prefetches.
\* A score is the fraction <<numerator, denominator>>.
\* ------------------------------------------------------------------------
PosIn(list, p) == CHOOSE j \in 1..Len(list) : list[j] = p

RECURSIVE RRFScore(_, _)
RRFScore(p, lists) ==
    IF lists = <<>> THEN <<0, 1>>
    ELSE LET rest == RRFScore(p, Tail(lists))
             l == Head(lists)
         IN  IF p \in Range(l)
             THEN <<rest[1] * (RRF_K + PosIn(l, p)) + rest[2],
                    rest[2] * (RRF_K + PosIn(l, p))>>
             ELSE rest

ScoreGreater(a, b) == a[1] * b[2] > b[1] * a[2]

RECURSIVE Dedup(_, _)
Dedup(s, seen) ==
    IF s = <<>> THEN <<>>
    ELSE IF Head(s) \in seen THEN Dedup(Tail(s), seen)
    ELSE <<Head(s)>> \o Dedup(Tail(s), seen \cup {Head(s)})

RECURSIVE Concat(_)
Concat(lists) == IF lists = <<>> THEN <<>> ELSE Head(lists) \o Concat(Tail(lists))

\* Candidates of all prefetches, by descending fused score, ties in input order.
Fuse(lists) ==
    LET c == Dedup(Concat(lists), {})
        n == Len(c)
        score == [j \in 1..n |-> RRFScore(c[j], lists)]
        before(m, j) ==
            \/ ScoreGreater(score[m], score[j])
            \/ /\ ~ScoreGreater(score[j], score[m])
               /\ m < j
        rank == [j \in 1..n |-> 1 + Cardinality({m \in 1..n : before(m, j)})]
    IN  [r \in 1..n |-> c[CHOOSE j \in 1..n : rank[j] = r]]

\* query_filter: None, or must match any of plan_hashes on origin.binary_hash
PassesFilter(qfilter, pt) ==
    \/ qfilter = None
    \/ /\ points[pt].shape = "ok"
       /\ points[pt].binary_hash \in Range(qfilter[1])

QueryPoints(prefetch, qfilter, limit) ==
    LET keep(pt) == PassesFilter(qfilter, pt)
        lists == [j \in 1..Len(prefetch) |-> SelectSeq(prefetch[j], keep)]
    IN  Take(Fuse(lists), limit)

\* ------------------------------------------------------------------------
\* HybridSearcher
\* ------------------------------------------------------------------------
PrefetchDenseOnly == <<dense>>

\* prefetch=[Prefetch(dense model), Prefetch(sparse model)]
Prefetch == <<dense, sparse>>

\* HybridSearcher.search: fusion query, no filter, limit 5, payloads only
searcher_search_points == QueryPoints(Prefetch, None, SearchLimit)

searcher_search ==
    [j \in 1..Len(searcher_search_points) |-> points[searcher_search_points[j]]]

\* HybridSearcher.visual_grounding(text, limit, plan_hashes)
searcher_visual_grounding(limit, plan_hashes) ==
    QueryPoints(Prefetch,
                IF plan_hashes # None /\ plan_hashes[1] # <<>> THEN plan_hashes ELSE None,
                limit)

\* ------------------------------------------------------------------------
\* service.py: GET /api/visual_grounding and GET /api/search
\* ------------------------------------------------------------------------
\* lines 102-117: the well-formed provenance records of all doc items
RECURSIVE ProvsOfItem(_)
ProvsOfItem(prov) ==
    IF prov = <<>> THEN <<>>
    ELSE (IF Head(prov).kind = "ok"
          THEN <<[page |-> Head(prov).page_no, bbox |-> Head(prov).bbox]>>
          ELSE <<>>) \o ProvsOfItem(Tail(prov))

\* ProvsFirstItem is the variant that reads the first doc item only.
ProvsFirstItem(items) ==
    IF items = <<>> \/ Head(items).kind # "dict" THEN <<>>
    ELSE ProvsOfItem(Head(items).prov)

RECURSIVE Provs(_)
Provs(items) ==
    IF items = <<>> THEN <<>>
    ELSE (IF Head(items).kind = "dict" THEN ProvsOfItem(Head(items).prov) ELSE <<>>)
         \o Provs(Tail(items))

\* lines 82-91: the payload has origin.binary_hash.
\* HasPayload is the variant that skips only a hit without payload.
HasPayload(pt) == points[pt].shape # "none"

HasFingerprint(pt) == points[pt].shape = "ok"

\* line 76: binary_hash is not None and str(binary_hash) in allowed_hashes
AllowedRaw(pt, allowed_hashes) ==
    HasFingerprint(pt) /\ StrIdentity(points[pt].binary_hash) \in Range(allowed_hashes)

Allowed(pt, allowed_hashes) ==
    HasFingerprint(pt) /\ Str(points[pt].binary_hash) \in Range(allowed_hashes)

\* lines 85-137: one entry of the result list
Enrich(pt) ==
    LET dl == points[pt]
        bh == Str(dl.binary_hash)
        pid == plan_for_hash(bh)
        plan_meta == IF pid # None THEN get_plan(pid[1]) ELSE None
        provs == Provs(dl.doc_items)
        page_num == IF provs # <<>> THEN provs[1].page ELSE 0
        boxes == [j \in 1..Len(provs) |-> provs[j].bbox]
    IN  [text |-> dl.text,
         binary_hash |-> bh,
         plan_id |-> pid,
         plan_name |-> IF plan_meta # None THEN Some(plan_meta[1].plan_name) ELSE Some(""),
         provs |-> provs,
         annotate_request_body |-> [binary_hash |-> bh, page |-> page_num, boxes |-> boxes]]

Response(status, detail, raw, result) ==
    [status |-> status, detail |-> detail, raw |-> raw, result |-> result]

NoResponse == Response(0, "none", None, None)

\* The handler; raw records the points the searcher returned, if it was called.
visual_grounding(plan_id, k) ==
    IF k < 1 \/ k > KMax
    THEN Response(422, "validation", None, None)
    ELSE LET hits == searcher_visual_grounding(k, None)
             allowed_hashes == get_hashes(plan_id[1])
             keep(pt) == Allowed(pt, allowed_hashes)
             wellformed(pt) == HasFingerprint(pt)
             kept == SelectSeq(IF TruthyOpt(plan_id) THEN SelectSeq(hits, keep) ELSE hits,
                               wellformed)
         IN  IF TruthyOpt(plan_id) /\ get_plan(plan_id[1]) = None
             THEN Response(404, "unknown_plan", Some(hits), None)
             ELSE Response(200, "visual_grounding", Some(hits),
                           Some([j \in 1..Len(kept) |-> Enrich(kept[j])]))

SearchIdle ==
    /\ manifest = <<>>
    /\ PlanServiceInit
    /\ points = <<>>
    /\ dense = <<>>
    /\ sparse = <<>>
    /\ resp = NoResponse

SearchInit ==
    /\ resp = NoResponse
    /\ \/ /\ manifest \in ManifestSet
          /\ points \in SeqUpTo(PayloadSet, MaxHits)
          /\ dense = [j \in 1..Len(points) |-> j]
          /\ sparse = <<>>
       \/ /\ manifest = FusionManifest
          /\ points = FusionPoints
          /\ dense \in InjSeqs(1..Len(points), MaxList)
          /\ Len(dense) = Min(MaxList, Len(points))
          /\ sparse \in InjSeqs(1..Len(points), MaxList)
       \/ /\ manifest = FusionManifest
          /\ points = ManyPoints
          /\ dense = [j \in 1..Len(points) |-> j]
          /\ sparse \in {<<>>, <<Len(points)>>}
    /\ PlanServiceInit

\* GET /api/visual_grounding?q=..&plan_id=..&k=..
VisualGrounding ==
    /\ resp = NoResponse
    /\ \E plan_id \in PlanIds : \E k \in Limits :
           resp' = [visual_grounding(plan_id, k) EXCEPT !.detail = <<@, plan_id, k>>]
    /\ UNCHANGED <<manifest, plans, hash_to_plan, points, dense, sparse>>
    /\ UNCHANGED <<ingestVars, annotateVars>>

\* GET /api/search?q=..
Search ==
    /\ resp = NoResponse
    /\ resp' = Response(200, <<"search", None, SearchLimit>>, Some(searcher_search_points),
                      Some(searcher_search))
    /\ UNCHANGED <<manifest, plans, hash_to_plan, points, dense, sparse>>
    /\ UNCHANGED <<ingestVars, annotateVars>>

\* The response has been sent; the service waits for the next request.
Sent ==
    /\ resp # NoResponse
    /\ resp' = NoResponse
    /\ UNCHANGED <<manifest, plans, hash_to_plan, points, dense, sparse>>
    /\ UNCHANGED <<ingestVars, annotateVars>>

SearchNext ==
    \/ VisualGrounding
    \/ Search
    \/ Sent

\* ------------------------------------------------------------------------
\* service.py: POST /api/annotate_result
\* Lengths are exact rationals: a quotient is kept as numerator and
\* denominator, so floor and ceil are those of the exact value.  The scale
\* factors of the modelled pages are dyadic, for which float arithmetic is
\* exact as well.
\* ------------------------------------------------------------------------
FloorDiv(a, b) == a \div b

CeilDiv(a, b) == -((-a) \div b)

\* inset = PAD + LINE_WIDTH
Inset == PAD + LINE_WIDTH

Box(l, t, r, b) == [l |-> l, t |-> t, r |-> r, b |-> b]

\* A page: image is "none" (page.image is None), "no_pil" (pil_image is
\* None) or "ok" with pixel size img_w x img_h; size is None or the
\* declared width and height, each of which may be None.
Page(image, img_w, img_h, size) ==
    [image |-> image, img_w |-> img_w, img_h |-> img_h, size |-> size]

Size(w, h) == Some([width |-> w, height |-> h])

PageSet ==
    { Page("ok", 1200, 1600, Size(Some(600), Some(800))),
      Page("ok", 900, 1200, Size(Some(600), Some(800))),
      Page("none", 0, 0, Size(Some(600), Some(800))),
      Page("no_pil", 0, 0, None),
      Page("ok", 1200, 1600, None),
      Page("ok", 1200, 1600, Size(None, Some(800))),
      Page("ok", 900, 1200, Size(Some(600), Some(0))) }

\* doc.pages: None, a sequence indexed from 0, or (docling_core's
\* DoclingDocument) a mapping from the page numbers 1..n to the pages.
PagesKinds == {"none", "list", "dict"}

AnnotDocs ==
    {[kind |-> k, pages |-> ps] :
        k \in PagesKinds, ps \in UNION {[1..n -> PageSet] : n \in 1..MaxPages}}

BoxSet ==
    { Box(100, 700, 200, 600),
      Box(101, 701, 201, 601),
      Box(0, 800, 600, 0) }

AnnotateRequests ==
    [binary_hash : {Fp("str", 1), Fp("str", 9)},
     page : (-1)..(MaxPages + 1),
     boxes : SeqUpTo(BoxSet, MaxBoxes)]

\* plan_service.get_filename
get_filename(binary_hash) ==
    LET plan_id == plan_for_hash(binary_hash) IN
    IF ~TruthyOpt(plan_id) \/ get_plan(plan_id[1]) = None THEN None
    ELSE LET docs == get_plan(plan_id[1])[1].documents
             hit == {d \in 1..Len(docs) : Str(docs[d].binary_hash) = Str(binary_hash)}
         IN  IF hit = {} THEN None
             ELSE Some(docs[CHOOSE d \in hit : \A e \in hit : d <= e].filename)

\* doc.pages[req.page]: the page, or the exception the subscript raises
PageLookup(doc, page) ==
    IF doc.kind = "list"
    THEN IF page >= 0 /\ page < Len(doc.pages)
         THEN [raises |-> "no", page |-> Some(doc.pages[page + 1])]
         ELSE IF page < 0 /\ -page <= Len(doc.pages)
         THEN [raises |-> "no", page |-> Some(doc.pages[Len(doc.pages) + page + 1])]
         ELSE [raises |-> "IndexError", page |-> None]
    ELSE IF doc.kind = "dict"
    THEN IF page \in 1..Len(doc.pages)
         THEN [raises |-> "no", page |-> Some(doc.pages[page])]
         ELSE [raises |-> "KeyError", page |-> None]
    ELSE [raises |-> "TypeError", page |-> None]

\* lines 170-176
SizeInvalid(page) ==
    \/ page.size = None
    \/ page.size[1].width = None
    \/ page.size[1].height = None
    \/ page.size[1].width[1] = 0
    \/ page.size[1].height[1] = 0

\* lines 191-199: one box in pixel space; sx = img_w / pw, sy = img_h / ph
ProjectLeft(box, img_w, img_h, pw, ph) == FloorDiv(box.l * img_w - Inset * pw, pw)

ProjectTopNoFlip(box, img_w, img_h, pw, ph) == FloorDiv(box.t * img_h - Inset * ph, ph)

ProjectTop(box, img_w, img_h, pw, ph) ==
    FloorDiv(img_h * ph - box.t * img_h - Inset * ph, ph)

ProjectRight(box, img_w, img_h, pw, ph) == CeilDiv(box.r * img_w + Inset * pw, pw)

ProjectBottom(box, img_w, img_h, pw, ph) ==
    CeilDiv(img_h * ph - box.b * img_h + Inset * ph, ph)

\* draw.rectangle([(left, top), (right, bottom)], outline=color, width=LINE_WIDTH)
Rectangle(box, n, page) ==
    LET pw == page.size[1].width[1]
        ph == page.size[1].height[1]
    IN  [left   |-> ProjectLeft(box, page.img_w, page.img_h, pw, ph),
         top    |-> ProjectTop(box, page.img_w, page.img_h, pw, ph),
         right  |-> ProjectRight(box, page.img_w, page.img_h, pw, ph),
         bottom |-> ProjectBottom(box, page.img_w, page.img_h, pw, ph),
         color  |-> ((n - 1) % NColors) + 1,
         width  |-> LINE_WIDTH]

AnnotateResponse(status, detail, image) ==
    [status |-> status, detail |-> detail, image |-> image]

\* The handler.  An exception it does not catch is the framework's
\* "Internal Server Error" response.
annotate_result(req) ==
    LET filename == get_filename(req.binary_hash) IN
    IF filename = None
    THEN AnnotateResponse(404, "Document not found for hash", None)
    ELSE IF stored = None
    THEN AnnotateResponse(500, "Internal Server Error", None)
    ELSE LET doc == stored[1]
             found == PageLookup(doc, req.page)
         IN  IF doc.kind = "none" \/ req.page < 0
             THEN AnnotateResponse(400, "Page invalid or pages not loaded", None)
             ELSE IF found.raises \in {"IndexError", "TypeError"}
             THEN AnnotateResponse(400, "Page out of range or invalid pages structure", None)
             ELSE IF found.raises # "no"
             THEN AnnotateResponse(500, "Internal Server Error", None)
             ELSE LET page == found.page[1] IN
                  IF page.image # "ok"
                  THEN AnnotateResponse(500, "Page image data is missing", None)
                  ELSE IF SizeInvalid(page)
                  THEN AnnotateResponse(500, "Page size data is missing or invalid", None)
                  ELSE AnnotateResponse(200, "image/png",
                           Some([n \in 1..Len(req.boxes) |-> Rectangle(req.boxes[n], n, page)]))

AnnotateIdle ==
    /\ stored = None
    /\ areq = None
    /\ aresp = None

AnnotateInit ==
    /\ manifest = FusionManifest
    /\ PlanServiceInit
    /\ points = <<>>
    /\ dense = <<>>
    /\ sparse = <<>>
    /\ resp = NoResponse
    /\ stored \in {None} \cup {Some(d) : d \in AnnotDocs}
    /\ areq = None
    /\ aresp = None

\* POST /api/annotate_result
AnnotateResult ==
    /\ areq = None
    /\ \E req \in AnnotateRequests :
           /\ areq' = Some(req)
           /\ aresp' = Some(annotate_result(req))
    /\ UNCHANGED stored
    /\ UNCHANGED <<ingestVars, searchVars>>

\* The response has been sent; the service waits for the next request.
AnnotateSent ==
    /\ areq # None
    /\ areq' = None
    /\ aresp' = None
    /\ UNCHANGED stored
    /\ UNCHANGED <<ingestVars, searchVars>>

AnnotateNext ==
    \/ AnnotateResult
    \/ AnnotateSent

IngestIdle ==
    /\ JSONS = <<>>
    /\ run = 1
    /\ pc = "idle"
    /\ di = 1
    /\ i = 0
    /\ chunk_count = 0
    /\ chunks = <<>>
    /\ used2 = FALSE
    /\ used3 = FALSE
    /\ store = <<>>
    /\ idsByRun = {}
    /\ upserted = {}
    /\ countAtDone = -1

\* The ingestion script.
Init == IngestInit /\ SearchIdle /\ AnnotateIdle

Next == IngestNext

Spec == Init /\ [][Next]_vars

\* The query service.
InitSearch == IngestIdle /\ SearchInit /\ AnnotateIdle

SpecSearch == InitSearch /\ [][SearchNext]_vars

\* The annotation endpoint of the query service.
InitAnnotate == IngestIdle /\ AnnotateInit

SpecAnnotate == InitAnnotate /\ [][AnnotateNext]_vars

\* ------------------------------------------------------------------------
\* Properties of chunk_doc and the ingestion loop
\* ------------------------------------------------------------------------
Yielded(ctype) == {k \in 1..Len(chunks) : chunks[k].content_type = ctype}

YieldedAt(ctype, idx) ==
    \E k \in 1..Len(chunks) : chunks[k].content_type = ctype /\ chunks[k].index = idx

TableFails(table) == TableRenderRaises(table) \/ (table.prov /\ table.meta = "raise")

\* C1: once strategy 1 has yielded a chunk for a document, strategies 2 and 3
\* are not entered for it and no table or markdown chunk is yielded, also
\* when the chunker raises after some chunks were yielded.
C1_TieringPrecedence ==
    Yielded("chunk") # {} =>
        /\ ~used2
        /\ ~used3
        /\ Yielded("table") = {}
        /\ Yielded("markdown_export") = {}

C1_Witness ==
    /\ pc = "gathered"
    /\ Yielded("chunk") # {}
    /\ Len(chunks) < Len(CurDoc.chunks)
    /\ Len(CurDoc.tables) > 0

\* C2: when strategy 1 yields nothing to the caller (the chunker returns
\* nothing or fails on its first chunk) and the document has tables, every
\* table whose rendering exceeds the minimum length is yielded as a table
\* chunk, and no table at or below it is.
C2_TableFallback ==
    (pc = "gathered" /\ Yielded("chunk") = {} /\ Len(CurDoc.tables) > 0) =>
        \A t \in 1..Len(CurDoc.tables) :
            LET table == CurDoc.tables[t] IN
            ~TableFails(table) =>
                (YieldedAt("table", t - 1) <=>
                    (Truthy(table.text) /\ StripLen(table.text) > MinTableLen))

\* C3: a failure on one item of a strategy skips that item only: every
\* other structural chunk, or every other table, is still yielded, and no
\* less-preferred strategy runs once the current one has yielded content.
C3_ItemFailureSkipsOnlyItem ==
    pc = "gathered" =>
        /\ \A j \in 1..Len(CurDoc.chunks) :
              CurDoc.chunks[j] \in {"ok", "plain"} => YieldedAt("chunk", j - 1)
        /\ used2 =>
              \A t \in 1..Len(CurDoc.tables) :
                  LET table == CurDoc.tables[t] IN
                  (~TableFails(table) /\ Truthy(table.text)
                      /\ StripLen(table.text) > MinTableLen)
                  => YieldedAt("table", t - 1)
        /\ Yielded("chunk") # {} => ~used2 /\ ~used3
        /\ Yielded("table") # {} => ~used3

\* C4: every run over the unchanged documents gathers the same set of ids
\* for a document, and once a run has completed the number of points in the
\* store no longer changes.
C4_IdempotentIngestion ==
    /\ \A a \in idsByRun : \A b \in idsByRun : a[2] = b[2] => a[3] = b[3]
    /\ countAtDone >= 0 => Len(store) = countAtDone

C4_Witness ==
    /\ run = MaxRuns
    /\ pc = "done"
    /\ countAtDone > 0
    /\ \E a \in idsByRun : a[1] = 1 /\ a[3] # {}
    /\ \E a \in idsByRun : a[1] = MaxRuns /\ a[3] # {}

\* C5: a document without extractable text and without tables yields one
\* whole-document chunk longer than the minimum or nothing, and when it
\* yields nothing the loop goes on without raising.
C5_EmptyDocumentSkipped ==
    (di <= Len(JSONS) /\ CurDoc.chunks = <<>> /\ CurDoc.tables = <<>>) =>
        /\ pc = "gathered" =>
              \/ chunks = <<>>
              \/ /\ Len(chunks) = 1
                 /\ chunks[1].content_type = "markdown_export"
                 /\ StripLen(chunks[1].text) > MinMarkdownLen
        /\ pc = "crashed" => chunks # <<>>

\* chunk_doc yields at least one chunk for the document.
ProducesChunks(doc) ==
    LET cs == doc.chunks
        countable(table) == ~TableRenderRaises(table) /\ TableMeaningful(TableText(table))
        s1Silent == cs = <<>> \/ cs[1] = "raise"
    IN  /\ doc.has_origin
        /\ \/ cs # <<>> /\ cs[1] \in {"ok", "plain"}
           \/ /\ s1Silent
              /\ \E t \in 1..Len(doc.tables) :
                     countable(doc.tables[t]) /\ ~TableFails(doc.tables[t])
           \/ /\ s1Silent
              /\ \A t \in 1..Len(doc.tables) : ~countable(doc.tables[t])
              /\ ~doc.md.raises
              /\ MarkdownSubstantial(doc.md.text)

\* C11: when the processing of one document of a run fails (no origin, the
\* embedding provider fails, the upsert fails), every other document of the
\* run that has chunks is still upserted in that run.
C11_FailureConfined ==
    (pc = "crashed" /\ run = 1) =>
        \A d \in 1..Len(JSONS) :
            (d # di /\ ProducesChunks(JSONS[d])) => d \in upserted

\* ------------------------------------------------------------------------
\* Properties of the query service
\* ------------------------------------------------------------------------
IsGrounding == resp.status = 200 /\ resp.detail[1] = "visual_grounding"

ReqPlan == resp.detail[2]

ReqK == resp.detail[3]

\* The point's fingerprint is one of the documents of the plan entry.
InPlan(pt, id) ==
    /\ points[pt].shape = "ok"
    /\ \E j \in 1..Len(manifest) :
           /\ manifest[j].plan_id = id
           /\ \A m \in (j + 1)..Len(manifest) : manifest[m].plan_id # id
           /\ \E d \in 1..Len(manifest[j].documents) :
                  Str(manifest[j].documents[d].binary_hash) = Str(points[pt].binary_hash)

\* C6: with a plan filter the search returns min(k, number of candidate
\* points of the plan's documents) hits, as a filter inside the similarity
\* query would.
C6_PreFilterTopK ==
    (IsGrounding /\ TruthyOpt(ReqPlan)) =>
        Len(resp.result[1]) =
            Min(ReqK, Cardinality({pt \in Range(dense) \cup Range(sparse) :
                                      InPlan(pt, ReqPlan[1])}))

\* C7: with a known plan_id the result is exactly the raw hits whose
\* fingerprint is in the plan's fingerprint set, in the raw hits' order.
C7_PlanFilter ==
    (IsGrounding /\ TruthyOpt(ReqPlan)) =>
        LET inPlan(pt) == InPlan(pt, ReqPlan[1])
            expected == SelectSeq(resp.raw[1], inPlan)
            result == resp.result[1]
        IN  /\ Len(result) = Len(expected)
            /\ \A j \in 1..Len(result) :
                   /\ result[j].text = points[expected[j]].text
                   /\ result[j].binary_hash = Str(points[expected[j]].binary_hash)

C7_Witness ==
    /\ IsGrounding
    /\ TruthyOpt(ReqPlan)
    /\ Len(resp.raw[1]) = 3
    /\ Len(resp.result[1]) = 2
    /\ ~InPlan(resp.raw[1][2], ReqPlan[1])
    /\ \E pt \in Range(resp.raw[1]) : points[pt].binary_hash.t = "int" /\ InPlan(pt, ReqPlan[1])

\* The response answers a visual_grounding request that passed validation.
GroundingHandled ==
    /\ resp # NoResponse
    /\ resp.detail[1] \in {"visual_grounding", "unknown_plan"}

InManifest(id) == \E j \in 1..Len(manifest) : manifest[j].plan_id = id

\* C12: a request whose plan_id is not in the manifest is answered 404 with
\* no result list, never with unfiltered hits.
C12_UnknownPlanRejected ==
    (GroundingHandled /\ ReqPlan # None /\ ~InManifest(ReqPlan[1])) =>
        resp.status = 404 /\ resp.result = None

\* The hit is malformed: no payload, no origin object or no fingerprint.
Malformed(pt) == points[pt].shape \in {"none", "no_origin", "no_hash"}

\* The raw hits the request asks for: all, or those of the requested plan.
Requested(pt) == TruthyOpt(ReqPlan) => InPlan(pt, ReqPlan[1])

\* C13: malformed hits are skipped without an error, and all other hits the
\* request asks for are returned, enriched, in the order of the raw hits,
\* with or without a plan filter.
C13_MalformedHitSkipped ==
    (GroundingHandled /\ (TruthyOpt(ReqPlan) => InManifest(ReqPlan[1]))) =>
        LET wanted(pt) == ~Malformed(pt) /\ Requested(pt)
            expected == SelectSeq(resp.raw[1], wanted)
            result == resp.result[1]
        IN  /\ resp.status = 200
            /\ Len(result) = Len(expected)
            /\ \A j \in 1..Len(result) :
                   /\ result[j].text = points[expected[j]].text
                   /\ result[j].binary_hash = Str(points[expected[j]].binary_hash)
                   /\ result[j].annotate_request_body.binary_hash = result[j].binary_hash

C13_Witness ==
    /\ IsGrounding
    /\ ReqPlan = None
    /\ Len(resp.raw[1]) = 3
    /\ ~Malformed(resp.raw[1][1])
    /\ Malformed(resp.raw[1][2])
    /\ ~Malformed(resp.raw[1][3])
    /\ Len(resp.result[1]) = 2
    /\ resp.result[1][1].text # resp.result[1][2].text

\* The hits that are returned, in order (C13).
Retained ==
    LET wanted(pt) == ~Malformed(pt) /\ Requested(pt)
    IN  SelectSeq(resp.raw[1], wanted)

\* The well-formed provenance records of a payload, as <<element, record>>.
Records(dl) ==
    UNION { {<<a, b>> : b \in {n \in 1..Len(dl.doc_items[a].prov) :
                                   dl.doc_items[a].prov[n].kind = "ok"}} :
            a \in {m \in 1..Len(dl.doc_items) : dl.doc_items[m].kind = "dict"} }

\* Element order, then record order.
Earlier(ab, cd) == ab[1] < cd[1] \/ (ab[1] = cd[1] /\ ab[2] < cd[2])

\* C14: the provs of a returned hit are the well-formed provenance records
\* of its doc items, in element order then record order, with the boxes in
\* the same order; a hit with no such record is returned with page 0 and no
\* boxes.
C14_FlatProvenance ==
    IsGrounding =>
        /\ Len(resp.result[1]) = Len(Retained)
        /\ \A j \in 1..Len(resp.result[1]) :
               LET dl == points[Retained[j]]
                   r == resp.result[1][j]
                   body == r.annotate_request_body
               IN  /\ Len(r.provs) = Cardinality(Records(dl))
                   /\ Len(body.boxes) = Len(r.provs)
                   /\ \A ab \in Records(dl) :
                          LET n == 1 + Cardinality({cd \in Records(dl) : Earlier(cd, ab)})
                              rec == dl.doc_items[ab[1]].prov[ab[2]]
                          IN  /\ r.provs[n] = [page |-> rec.page_no, bbox |-> rec.bbox]
                              /\ body.boxes[n] = rec.bbox
                   /\ Records(dl) = {} => (body.page = 0 /\ body.boxes = <<>>)

C14_Witness ==
    /\ IsGrounding
    /\ \E j \in 1..Len(resp.result[1]) :
           /\ Len(resp.result[1][j].provs) = 3
           /\ Cardinality({ab[1] : ab \in Records(points[Retained[j]])}) = 2
    /\ \E j \in 1..Len(resp.result[1]) :
           /\ resp.result[1][j].provs = <<>>
           /\ points[Retained[j]].doc_items # <<>>

\* C15: a search returns at most its limit of hits (5 for /api/search, k
\* for visual_grounding), and a k below 1 or above 10 is rejected before
\* the vector store is queried.
C15_LimitRespected ==
    resp # NoResponse =>
        IF resp.detail[1] = "search"
        THEN Len(resp.raw[1]) <= SearchLimit /\ Len(resp.result[1]) <= SearchLimit
        ELSE IF ReqK \in 1..KMax
        THEN /\ resp.status \in {200, 404}
             /\ Len(resp.raw[1]) <= ReqK
             /\ resp.result # None => Len(resp.result[1]) <= ReqK
        ELSE /\ resp.status = 422
             /\ resp.raw = None
             /\ resp.result = None

C15_Witness ==
    /\ IsGrounding
    /\ ReqK = KMax
    /\ Len(resp.result[1]) = KMax
    /\ Len(points) > KMax

\* C16: every hit returned for a known plan_id carries the plan_id and the
\* plan_name of the requested plan, also when a fingerprint is listed under
\* several plans.
C16_RequestedPlanAttached ==
    (IsGrounding /\ TruthyOpt(ReqPlan)) =>
        \A j \in 1..Len(resp.result[1]) :
            /\ resp.result[1][j].plan_id = ReqPlan
            /\ resp.result[1][j].plan_name = Some(get_plan(ReqPlan[1])[1].plan_name)

\* C17: every box of annotate_request_body.boxes is the box of a provenance
\* record whose page is annotate_request_body.page.
C17_BoxesOnRequestPage ==
    IsGrounding =>
        \A j \in 1..Len(resp.result[1]) :
            LET r == resp.result[1][j]
                body == r.annotate_request_body
            IN  \A n \in 1..Len(body.boxes) :
                    /\ body.boxes[n] = r.provs[n].bbox
                    /\ r.provs[n].page = body.page

\* The fused score of the claim: 1/(k + rank) summed over the dense and the
\* sparse list, nothing for a list the point is absent from.
ClaimScore(p) ==
    LET d == IF p \in Range(dense) THEN <<1, RRF_K + PosIn(dense, p)>> ELSE <<0, 1>>
        sp == IF p \in Range(sparse) THEN <<1, RRF_K + PosIn(sparse, p)>> ELSE <<0, 1>>
    IN  <<d[1] * sp[2] + sp[1] * d[2], d[2] * sp[2]>>

\* C8: the hits of a fusion query are in descending order of the fused score
\* and are the best-scored candidates; for the dense list [A,B,C] and the
\* sparse list [B,C,D], B scores higher than A and D and is returned first.
C8_FusionRanking ==
    (resp.status = 200 /\ resp.raw # None) =>
        LET raw == resp.raw[1] IN
        /\ \A j \in 1..(Len(raw) - 1) :
               ~ScoreGreater(ClaimScore(raw[j + 1]), ClaimScore(raw[j]))
        /\ Len(raw) = Min(ReqK, Cardinality(Range(dense) \cup Range(sparse)))
        /\ \A p \in (Range(dense) \cup Range(sparse)) \ Range(raw) :
               \A j \in 1..Len(raw) : ~ScoreGreater(ClaimScore(p), ClaimScore(raw[j]))
        /\ (dense = <<1, 2, 3>> /\ sparse = <<2, 3, 4>>) =>
               /\ raw[1] = 2
               /\ ScoreGreater(ClaimScore(2), ClaimScore(1))
               /\ ScoreGreater(ClaimScore(2), ClaimScore(4))

C8_Witness ==
    /\ IsGrounding
    /\ dense = <<1, 2, 3>>
    /\ sparse = <<2, 3, 4>>
    /\ Len(resp.raw[1]) = 2

\* ------------------------------------------------------------------------
\* Properties of annotate_result
\* ------------------------------------------------------------------------
Answered == areq # None

Resolved == Answered /\ get_filename(areq[1].binary_hash) # None /\ stored # None

\* The index is a page of the loaded document.
IsPage(doc, p) ==
    \/ doc.kind = "list" /\ p \in 0..(Len(doc.pages) - 1)
    \/ doc.kind = "dict" /\ p \in 1..Len(doc.pages)

PageUsed == PageLookup(stored[1], areq[1].page).page[1]

ExampleCase ==
    /\ Resolved
    /\ aresp[1].status = 200
    /\ PageUsed = Page("ok", 1200, 1600, Size(Some(600), Some(800)))
    /\ Len(areq[1].boxes) >= 1
    /\ areq[1].boxes[1] = Box(100, 700, 200, 600)

Corners(rect) == <<rect.left, rect.top, rect.right, rect.bottom>>

\* C9 as stated: on the 600x800 page rendered at 1200x1600 the box
\* (l=100, t=700, r=200, b=600) is drawn as (200, 200, 400, 400).
C9_ZeroPaddingExample ==
    ExampleCase => Corners(aresp[1].image[1][1]) = <<200, 200, 400, 400>>

\* C9 amended: every drawn rectangle is the box scaled by W/page_width and
\* H/page_height, flipped to y-down and grown by the fixed inset
\* PAD + LINE_WIDTH = 10, then floored (left, top) and ceiled (right, bottom);
\* the example box is drawn as (190, 190, 410, 410).
C9_Projection ==
    (Answered /\ aresp[1].status = 200) =>
        LET W == PageUsed.img_w
            H == PageUsed.img_h
            pw == PageUsed.size[1].width[1]
            ph == PageUsed.size[1].height[1]
            pad == PAD + LINE_WIDTH
            rects == aresp[1].image[1]
        IN  /\ Len(rects) = Len(areq[1].boxes)
            /\ \A n \in 1..Len(rects) :
                 LET box == areq[1].boxes[n]
                     rc == rects[n]
                 IN  /\ rc.left * pw <= box.l * W - pad * pw
                     /\ box.l * W - pad * pw < (rc.left + 1) * pw
                     /\ rc.top * ph <= H * ph - box.t * H - pad * ph
                     /\ H * ph - box.t * H - pad * ph < (rc.top + 1) * ph
                     /\ (rc.right - 1) * pw < box.r * W + pad * pw
                     /\ box.r * W + pad * pw <= rc.right * pw
                     /\ (rc.bottom - 1) * ph < H * ph - box.b * H + pad * ph
                     /\ H * ph - box.b * H + pad * ph <= rc.bottom * ph
            /\ ExampleCase => Corners(rects[1]) = <<190, 190, 410, 410>>

C9_Witness ==
    /\ ExampleCase
    /\ Len(areq[1].boxes) = 2
    /\ areq[1].boxes[2] = Box(101, 701, 201, 601)

\* C10: a page index that is not a page of the resolved document is answered
\* with the invalid-page error 400 and no image; unknown document, missing
\* image and invalid page geometry each have their own error.
C10_InvalidPageDistinct ==
    Answered =>
        /\ get_filename(areq[1].binary_hash) = None => aresp[1].status = 404
        /\ (Resolved /\ ~IsPage(stored[1], areq[1].page)) =>
               aresp[1].status = 400 /\ aresp[1].image = None
        /\ (Resolved /\ IsPage(stored[1], areq[1].page)) =>
               /\ PageUsed.image # "ok" =>
                      aresp[1] = AnnotateResponse(500, "Page image data is missing", None)
               /\ (PageUsed.image = "ok" /\ SizeInvalid(PageUsed)) =>
                      aresp[1] = AnnotateResponse(500, "Page size data is missing or invalid", None)

====
